---- MODULE Spec2Model ----
(***************************************************************************)
(* State-machine model of tfswitcher (src/main.rs): one run of the program *)
(* from argument parsing to the installed binary, plus the two pure        *)
(* helpers capture_terraform_versions and get_version_from_module applied  *)
(* to bounded inputs.                                                      *)
(*                                                                         *)
(* Text is a sequence of one-character strings, so that splitting into     *)
(* lines, regex matching, trimming and semver parsing are computed and not *)
(* assumed.  Option<T> is <<>> (None) or <<x>> (Some(x)).                  *)
(***************************************************************************)
EXTENDS Integers, Sequences, FiniteSets, TLC

None == <<>>
Some(x) == <<x>>

Ok(v) == [tag |-> "Ok", val |-> v]
\* The payload is wrapped like a Some(text) so that any two results compare.
Err(e) == [tag |-> "Err", val |-> << <<e>> >>]

Range(s) == {s[i] : i \in 1..Len(s)}

Min(S) == CHOOSE x \in S : \A y \in S : x <= y

Max(S) == CHOOSE x \in S : \A y \in S : x >= y

(***************************************************************************)
(* Characters                                                              *)
(***************************************************************************)
NL == <<"\n">>

QUOTE == "\""

\* The documents are ASCII: of the digits \d accepts, only these occur.
Digits == {"0", "1", "2", "3", "4", "5", "6", "7", "8", "9"}

Letters ==
    {"a", "b", "c", "d", "e", "f", "g", "h", "i", "j", "k", "l", "m",
     "n", "o", "p", "q", "r", "s", "t", "u", "v", "w", "x", "y", "z",
     "A", "B", "C", "D", "E", "F", "G", "H", "I", "J", "K", "L", "M",
     "N", "O", "P", "Q", "R", "S", "T", "U", "V", "W", "X", "Y", "Z"}

\* [a-zA-Z0-9-]
SuffixChars == Letters \cup Digits \cup {"-"}

\* \d
IsDigit(c) == c \in Digits

IsSuffixChar(c) == c \in SuffixChars

\* First position >= i of text whose character is not in Class (Len+1 when
\* the run reaches the end): the end of a greedy [Class]* started at i.
RunEnd(text, i, Class) ==
    LET stop == {j \in i..Len(text) : text[j] \notin Class}
    IN  IF stop = {} THEN Len(text) + 1 ELSE Min(stop)

At(text, i) == IF i >= 1 /\ i <= Len(text) THEN text[i] ELSE ""

(***************************************************************************)
(* The two patterns of capture_terraform_versions.  A match attempt at     *)
(* position i yields the position just past the match, or 0.               *)
(***************************************************************************)
\* \d+\.\d+\.\d+ started at i
CoreEnd(text, i) ==
    LET a == RunEnd(text, i, Digits)
        b == RunEnd(text, a + 1, Digits)
        c == RunEnd(text, b + 1, Digits)
    IN  IF a > i /\ At(text, a) = "." /\ b > a + 1 /\ At(text, b) = "." /\ c > b + 1
        THEN c ELSE 0

\* /?" started at j
TailEnd(text, j) ==
    IF At(text, j) = "/" /\ At(text, j + 1) = QUOTE THEN j + 2
    ELSE IF At(text, j) = QUOTE THEN j + 1
    ELSE 0

\* r#"/(\d+\.\d+\.\d+)/?""#
StrictMatchAt(text, i) ==
    IF At(text, i) # "/" THEN 0
    ELSE LET c == CoreEnd(text, i + 1)
         IN  IF c = 0 THEN 0 ELSE TailEnd(text, c)

\* The suffix group without its trailing ?: a pre-release suffix is required.
InclusiveMatchAt_GroupRequired(text, i) ==
    IF At(text, i) # "/" THEN 0
    ELSE LET c == CoreEnd(text, i + 1)
             e == RunEnd(text, c + 1, SuffixChars)
         IN  IF c # 0 /\ At(text, c) = "-" /\ e > c + 1 THEN TailEnd(text, e) ELSE 0

\* r#"/(\d+\.\d+\.\d+)(?:-[a-zA-Z0-9-]+)?/?""#
\* The group is greedy and tried first; the characters it can give back are
\* all of its own class, so only its longest extent can be followed by /?".
InclusiveMatchAt(text, i) ==
    IF At(text, i) # "/" THEN 0
    ELSE LET c == CoreEnd(text, i + 1)
             e == RunEnd(text, c + 1, SuffixChars)
             withGroup == IF c # 0 /\ At(text, c) = "-" /\ e > c + 1
                          THEN TailEnd(text, e) ELSE 0
         IN  IF c = 0 THEN 0
             ELSE IF withGroup # 0 THEN withGroup
             ELSE TailEnd(text, c)

MatchAt(list_all, text, i) ==
    IF list_all THEN InclusiveMatchAt(text, i) ELSE StrictMatchAt(text, i)

\* re.captures(text) then capture.get(0): the leftmost match, as Some(<<from, to>>)
\* with text[from..to] the matched substring.
captures(list_all, text) ==
    LET starts == {i \in 1..Len(text) : MatchAt(list_all, text, i) # 0}
    IN  IF starts = {} THEN None
        ELSE LET i == Min(starts)
             IN  Some(<<i, MatchAt(list_all, text, i) - 1>>)

\* str::trim_matches(&['/', '"'])
trim_matches(text) ==
    LET keep == {i \in 1..Len(text) : text[i] \notin {"/", QUOTE}}
    IN  IF keep = {} THEN <<>> ELSE SubSeq(text, Min(keep), Max(keep))

\* contents.split('\n')
RECURSIVE split(_)
split(contents) ==
    LET nl == {i \in 1..Len(contents) : contents[i] = "\n"}
    IN  IF nl = {} THEN <<contents>>
        ELSE <<SubSeq(contents, 1, Min(nl) - 1)>>
             \o split(SubSeq(contents, Min(nl) + 1, Len(contents)))

\* Every match on a line is pushed, not only the first.
capture_terraform_versions_AllMatches(a, contents) ==
    LET lines == split(contents)
        RECURSIVE scan(_, _)
        scan(text, from) ==
            LET starts == {i \in from..Len(text) : MatchAt(a.list_all, text, i) # 0}
            IN  IF starts = {} THEN <<>>
                ELSE LET i == Min(starts)
                         e == MatchAt(a.list_all, text, i)
                     IN  <<trim_matches(SubSeq(text, i, e - 1))>> \o scan(text, e)
        RECURSIVE loop(_, _)
        loop(k, acc) ==
            IF k > Len(lines) THEN acc
            ELSE loop(k + 1, acc \o scan(lines[k], 1))
    IN  loop(1, <<>>)

\* fn capture_terraform_versions(args, contents) -> Vec<String>
capture_terraform_versions(a, contents) ==
    LET lines == split(contents)
        RECURSIVE loop(_, _)
        loop(k, acc) ==
            IF k > Len(lines) THEN acc
            ELSE LET capture == captures(a.list_all, lines[k])
                 IN  IF capture # None
                     THEN loop(k + 1, Append(acc,
                              trim_matches(SubSeq(lines[k], capture[1][1], capture[1][2]))))
                     ELSE loop(k + 1, acc)
    IN  loop(1, <<>>)

(***************************************************************************)
(* tests::LINES, the sample release index of the unit tests.               *)
(***************************************************************************)
LINES ==
    <<"<","h","t","m","l",">","<","h","e","a","d",">">> \o NL \o
    <<" "," "," "," "," "," "," "," ","<","t","i","t","l","e",">","T","e","r","r","a","f","o","r","m"," ","V","e","r","s","i","o","n","s"," ","|"," ","H","a","s","h","i","C","o","r","p"," ","R","e","l","e","a","s","e","s","<","/","t","i","t","l","e",">">> \o NL \o
    <<>> \o NL \o
    <<" "," "," "," ","<","/","h","e","a","d",">">> \o NL \o
    <<" "," "," "," ","<","b","o","d","y",">">> \o NL \o
    <<" "," "," "," "," "," "," "," ","<","u","l",">">> \o NL \o
    <<" "," "," "," "," "," "," "," "," "," "," "," ","<","l","i",">">> \o NL \o
    <<" "," "," "," "," "," "," "," "," "," "," "," ","<","a"," ","h","r","e","f","=","\"",".",".","/","\"",">",".",".","/","<","/","a",">">> \o NL \o
    <<" "," "," "," "," "," "," "," "," "," "," "," ","<","/","l","i",">">> \o NL \o
    <<" "," "," "," "," "," "," "," "," "," "," "," ","<","l","i",">">> \o NL \o
    <<" "," "," "," "," "," "," "," "," "," "," "," ","<","a"," ","h","r","e","f","=","\"","/","t","e","r","r","a","f","o","r","m","/","1",".","3",".","0","/","\"",">","t","e","r","r","a","f","o","r","m","_","1",".","3",".","0","<","/","a",">">> \o NL \o
    <<" "," "," "," "," "," "," "," "," "," "," "," ","<","/","l","i",">">> \o NL \o
    <<" "," "," "," "," "," "," "," "," "," "," "," ","<","l","i",">">> \o NL \o
    <<" "," "," "," "," "," "," "," "," "," "," "," ","<","a"," ","h","r","e","f","=","\"","/","t","e","r","r","a","f","o","r","m","/","1",".","3",".","0","-","r","c","1","/","\"",">","t","e","r","r","a","f","o","r","m","_","1",".","3",".","0","-","r","c","1","<","/","a",">">> \o NL \o
    <<" "," "," "," "," "," "," "," "," "," "," "," ","<","/","l","i",">">> \o NL \o
    <<" "," "," "," "," "," "," "," "," "," "," "," ","<","l","i",">">> \o NL \o
    <<" "," "," "," "," "," "," "," "," "," "," "," ","<","a"," ","h","r","e","f","=","\"","/","t","e","r","r","a","f","o","r","m","/","1",".","3",".","0","-","b","e","t","a","1","/","\"",">","t","e","r","r","a","f","o","r","m","_","1",".","3",".","0","-","b","e","t","a","1","<","/","a",">">> \o NL \o
    <<" "," "," "," "," "," "," "," "," "," "," "," ","<","/","l","i",">">> \o NL \o
    <<" "," "," "," "," "," "," "," "," "," "," "," ","<","l","i",">">> \o NL \o
    <<" "," "," "," "," "," "," "," "," "," "," "," ","<","a"," ","h","r","e","f","=","\"","/","t","e","r","r","a","f","o","r","m","/","1",".","3",".","0","-","a","l","p","h","a","2","0","2","2","0","6","0","8","/","\"",">","t","e","r","r","a","f","o","r","m","_","1",".","3",".","0","-","a","l","p","h","a","2","0","2","2","0","6","0","8","<","/","a",">">> \o NL \o
    <<" "," "," "," "," "," "," "," "," "," "," "," ","<","/","l","i",">">> \o NL \o
    <<" "," "," "," "," "," "," "," "," "," "," "," ","<","l","i",">">> \o NL \o
    <<" "," "," "," "," "," "," "," "," "," "," "," ","<","a"," ","h","r","e","f","=","\"","/","t","e","r","r","a","f","o","r","m","/","1",".","2",".","0","/","\"",">","t","e","r","r","a","f","o","r","m","_","1",".","2",".","0","<","/","a",">">> \o NL \o
    <<" "," "," "," "," "," "," "," "," "," "," "," ","<","/","l","i",">">> \o NL \o
    <<" "," "," "," "," "," "," "," "," "," "," "," ","<","l","i",">">> \o NL \o
    <<" "," "," "," "," "," "," "," "," "," "," "," ","<","a"," ","h","r","e","f","=","\"","/","t","e","r","r","a","f","o","r","m","/","1",".","2",".","0","-","r","c","1","/","\"",">","t","e","r","r","a","f","o","r","m","_","1",".","2",".","0","-","r","c","1","<","/","a",">">> \o NL \o
    <<" "," "," "," "," "," "," "," "," "," "," "," ","<","/","l","i",">">> \o NL \o
    <<" "," "," "," "," "," "," "," "," "," "," "," ","<","l","i",">">> \o NL \o
    <<" "," "," "," "," "," "," "," "," "," "," "," ","<","a"," ","h","r","e","f","=","\"","/","t","e","r","r","a","f","o","r","m","/","1",".","2",".","0","-","b","e","t","a","1","/","\"",">","t","e","r","r","a","f","o","r","m","_","1",".","2",".","0","-","b","e","t","a","1","<","/","a",">">> \o NL \o
    <<" "," "," "," "," "," "," "," "," "," "," "," ","<","/","l","i",">">> \o NL \o
    <<" "," "," "," "," "," "," "," "," "," "," "," ","<","l","i",">">> \o NL \o
    <<" "," "," "," "," "," "," "," "," "," "," "," ","<","a"," ","h","r","e","f","=","\"","/","t","e","r","r","a","f","o","r","m","/","1",".","2",".","0","-","a","l","p","h","a","2","0","2","2","0","4","1","3","/","\"",">","t","e","r","r","a","f","o","r","m","_","1",".","2",".","0","-","a","l","p","h","a","2","0","2","2","0","4","1","3","<","/","a",">">> \o NL \o
    <<" "," "," "," "," "," "," "," "," "," "," "," ","<","/","l","i",">">> \o NL \o
    <<" "," "," "," "," "," "," "," "," "," "," "," ","<","l","i",">">> \o NL \o
    <<" "," "," "," "," "," "," "," "," "," "," "," ","<","a"," ","h","r","e","f","=","\"","/","t","e","r","r","a","f","o","r","m","/","1",".","2",".","0","-","a","l","p","h","a","-","2","0","2","2","0","3","2","8","/","\"",">","t","e","r","r","a","f","o","r","m","_","1",".","2",".","0","-","a","l","p","h","a","-","2","0","2","2","0","3","2","8","<","/","a",">">> \o NL \o
    <<" "," "," "," "," "," "," "," "," "," "," "," ","<","/","l","i",">">> \o NL \o
    <<" "," "," "," "," "," "," "," "," "," "," "," ","<","l","i",">">> \o NL \o
    <<" "," "," "," "," "," "," "," "," "," "," "," ","<","a"," ","h","r","e","f","=","\"","/","t","e","r","r","a","f","o","r","m","/","1",".","1",".","0","/","\"",">","t","e","r","r","a","f","o","r","m","_","1",".","1",".","0","<","/","a",">">> \o NL \o
    <<" "," "," "," "," "," "," "," "," "," "," "," ","<","/","l","i",">">> \o NL \o
    <<" "," "," "," "," "," "," "," "," "," "," "," ","<","l","i",">">> \o NL \o
    <<" "," "," "," "," "," "," "," "," "," "," "," ","<","a"," ","h","r","e","f","=","\"","/","t","e","r","r","a","f","o","r","m","/","1",".","1",".","0","-","r","c","1","/","\"",">","t","e","r","r","a","f","o","r","m","_","1",".","1",".","0","-","r","c","1","<","/","a",">">> \o NL \o
    <<" "," "," "," "," "," "," "," "," "," "," "," ","<","/","l","i",">">> \o NL \o
    <<" "," "," "," "," "," "," "," "," "," "," "," ","<","l","i",">">> \o NL \o
    <<" "," "," "," "," "," "," "," "," "," "," "," ","<","a"," ","h","r","e","f","=","\"","/","t","e","r","r","a","f","o","r","m","/","1",".","1",".","0","-","b","e","t","a","1","/","\"",">","t","e","r","r","a","f","o","r","m","_","1",".","1",".","0","-","b","e","t","a","1","<","/","a",">">> \o NL \o
    <<" "," "," "," "," "," "," "," "," "," "," "," ","<","/","l","i",">">> \o NL \o
    <<" "," "," "," "," "," "," "," "," "," "," "," ","<","l","i",">">> \o NL \o
    <<" "," "," "," "," "," "," "," "," "," "," "," ","<","a"," ","h","r","e","f","=","\"","/","t","e","r","r","a","f","o","r","m","/","1",".","1",".","0","-","a","l","p","h","a","2","0","2","1","1","0","2","9","/","\"",">","t","e","r","r","a","f","o","r","m","_","1",".","1",".","0","-","a","l","p","h","a","2","0","2","1","1","0","2","9","<","/","a",">">> \o NL \o
    <<" "," "," "," "," "," "," "," "," "," "," "," ","<","/","l","i",">">> \o NL \o
    <<" "," "," "," "," "," "," "," "," "," "," "," ","<","l","i",">">> \o NL \o
    <<" "," "," "," "," "," "," "," "," "," "," "," ","<","a"," ","h","r","e","f","=","\"","/","t","e","r","r","a","f","o","r","m","/","1",".","0",".","0","/","\"",">","t","e","r","r","a","f","o","r","m","_","1",".","0",".","0","<","/","a",">">> \o NL \o
    <<" "," "," "," "," "," "," "," "," "," "," "," ","<","/","l","i",">">> \o NL \o
    <<" "," "," "," "," "," "," "," "," "," "," "," ","<","l","i",">">> \o NL \o
    <<" "," "," "," "," "," "," "," "," "," "," "," ","<","a"," ","h","r","e","f","=","\"","/","t","e","r","r","a","f","o","r","m","/","0",".","1","5",".","0","/","\"",">","t","e","r","r","a","f","o","r","m","_","0",".","1","5",".","0","<","/","a",">">> \o NL \o
    <<" "," "," "," "," "," "," "," "," "," "," "," ","<","/","l","i",">">> \o NL \o
    <<" "," "," "," "," "," "," "," "," "," "," "," ","<","l","i",">">> \o NL \o
    <<" "," "," "," "," "," "," "," "," "," "," "," ","<","a"," ","h","r","e","f","=","\"","/","t","e","r","r","a","f","o","r","m","/","0",".","1","5",".","0","-","r","c","1","/","\"",">","t","e","r","r","a","f","o","r","m","_","0",".","1","5",".","0","-","r","c","1","<","/","a",">">> \o NL \o
    <<" "," "," "," "," "," "," "," "," "," "," "," ","<","/","l","i",">">> \o NL \o
    <<" "," "," "," "," "," "," "," "," "," "," "," ","<","l","i",">">> \o NL \o
    <<" "," "," "," "," "," "," "," "," "," "," "," ","<","a"," ","h","r","e","f","=","\"","/","t","e","r","r","a","f","o","r","m","/","0",".","1","5",".","0","-","b","e","t","a","1","/","\"",">","t","e","r","r","a","f","o","r","m","_","0",".","1","5",".","0","-","b","e","t","a","1","<","/","a",">">> \o NL \o
    <<" "," "," "," "," "," "," "," "," "," "," "," ","<","/","l","i",">">> \o NL \o
    <<" "," "," "," "," "," "," "," "," "," "," "," ","<","l","i",">">> \o NL \o
    <<" "," "," "," "," "," "," "," "," "," "," "," ","<","a"," ","h","r","e","f","=","\"","/","t","e","r","r","a","f","o","r","m","/","0",".","1","5",".","0","-","a","l","p","h","a","2","0","2","1","0","1","0","7","/","\"",">","t","e","r","r","a","f","o","r","m","_","0",".","1","5",".","0","-","a","l","p","h","a","2","0","2","1","0","1","0","7","<","/","a",">">> \o NL \o
    <<" "," "," "," "," "," "," "," "," "," "," "," ","<","/","l","i",">">> \o NL \o
    <<" "," "," "," "," "," "," "," "," "," "," "," ">> \o NL \o
    <<" "," "," "," "," "," "," "," ","<","/","u","l",">">> \o NL \o
    <<>> \o NL \o
    <<"<","/","b","o","d","y",">","<","/","h","t","m","l",">">>


(***************************************************************************)
(* semver::Version::from_str, semver::VersionReq::parse and                *)
(* VersionReq::matches, as get_version_from_module uses them.  Numbers are *)
(* small (no u64 overflow); a requirement is a comma-separated list of     *)
(* comparators, each an optional operator and a full major.minor.patch     *)
(* (partial versions, wildcards and pre-release comparators are outside    *)
(* the modelled grammar and are not among the inputs).                     *)
(***************************************************************************)
DigitSeq == <<"0", "1", "2", "3", "4", "5", "6", "7", "8", "9">>

DigitValue(c) == (CHOOSE n \in 1..10 : DigitSeq[n] = c) - 1

RECURSIVE DecimalValue(_)
DecimalValue(ds) ==
    IF ds = <<>> THEN 0
    ELSE 10 * DecimalValue(SubSeq(ds, 1, Len(ds) - 1)) + DigitValue(ds[Len(ds)])

\* A numeric field: digits, without a leading zero unless it is "0".
NumericOk(ds) ==
    /\ ds # <<>>
    /\ \A i \in 1..Len(ds) : IsDigit(ds[i])
    /\ Len(ds) > 1 => ds[1] # "0"

IsIdentChar(c) == IsSuffixChar(c) \/ c = "."

\* Dot-separated pre-release identifiers: none empty, numeric ones without
\* leading zeros.
PrereleaseOk(p) ==
    /\ p # <<>>
    /\ \A i \in 1..Len(p) : IsIdentChar(p[i])
    /\ p[1] # "." /\ p[Len(p)] # "."
    /\ \A i \in 1..(Len(p) - 1) : ~(p[i] = "." /\ p[i + 1] = ".")
    /\ \A i \in 1..Len(p) :
          (i = 1 \/ p[i - 1] = ".") =>
              LET e == RunEnd(p, i, SuffixChars)
                  ident == SubSeq(p, i, e - 1)
              IN  (\A j \in 1..Len(ident) : IsDigit(ident[j])) => NumericOk(ident)

\* Version::from_str
Version_from_str(text) ==
    LET a == RunEnd(text, 1, Digits)
        b == RunEnd(text, a + 1, Digits)
        c == RunEnd(text, b + 1, Digits)
        core == /\ At(text, a) = "." /\ At(text, b) = "."
                /\ NumericOk(SubSeq(text, 1, a - 1))
                /\ NumericOk(SubSeq(text, a + 1, b - 1))
                /\ NumericOk(SubSeq(text, b + 1, c - 1))
        pre == IF At(text, c) = "-" THEN SubSeq(text, c + 1, Len(text)) ELSE <<>>
    IN  IF core /\ (c = Len(text) + 1 \/ (At(text, c) = "-" /\ PrereleaseOk(pre)))
        THEN Ok([major |-> DecimalValue(SubSeq(text, 1, a - 1)),
                 minor |-> DecimalValue(SubSeq(text, a + 1, b - 1)),
                 patch |-> DecimalValue(SubSeq(text, b + 1, c - 1)),
                 pre   |-> pre])
        ELSE Err("semver")

TrimSpaces(text) ==
    LET keep == {i \in 1..Len(text) : text[i] # " "}
    IN  IF keep = {} THEN <<>> ELSE SubSeq(text, Min(keep), Max(keep))

\* text.split(',')
RECURSIVE SplitComma(_)
SplitComma(text) ==
    LET cm == {i \in 1..Len(text) : text[i] = ","}
    IN  IF cm = {} THEN <<text>>
        ELSE <<SubSeq(text, 1, Min(cm) - 1)>>
             \o SplitComma(SubSeq(text, Min(cm) + 1, Len(text)))

\* One comparator: operator (none means caret), optional spaces, version.
ParseComparator(text) ==
    LET t == TrimSpaces(text)
        op == IF At(t, 1) \in {">", "<"} /\ At(t, 2) = "=" THEN SubSeq(t, 1, 2)
              ELSE IF At(t, 1) \in {"=", ">", "<", "~", "^"} THEN SubSeq(t, 1, 1)
              ELSE <<>>
        v == Version_from_str(TrimSpaces(SubSeq(t, Len(op) + 1, Len(t))))
    IN  IF v.tag = "Ok" /\ v.val.pre = <<>>
        THEN Ok([op |-> IF op = <<>> THEN <<"^">> ELSE op, v |-> v.val])
        ELSE Err("semver")

\* VersionReq::parse
VersionReq_parse(text) ==
    LET parts == SplitComma(text)
        parsed == [i \in 1..Len(parts) |-> ParseComparator(parts[i])]
    IN  IF \A i \in 1..Len(parts) : parsed[i].tag = "Ok"
        THEN Ok([i \in 1..Len(parts) |-> parsed[i].val])
        ELSE Err("semver")

\* (major, minor, patch) of x before that of y
CoreLess(x, y) ==
    \/ x.major < y.major
    \/ x.major = y.major /\ x.minor < y.minor
    \/ x.major = y.major /\ x.minor = y.minor /\ x.patch < y.patch

CoreEq(x, y) == x.major = y.major /\ x.minor = y.minor /\ x.patch = y.patch

ComparatorMatches(cmp, v) ==
    LET c == cmp.v
    IN  CASE cmp.op = <<"=">>      -> CoreEq(v, c)
          [] cmp.op = <<">">>      -> CoreLess(c, v)
          [] cmp.op = <<">", "=">> -> CoreLess(c, v) \/ CoreEq(v, c)
          [] cmp.op = <<"<">>      -> CoreLess(v, c)
          [] cmp.op = <<"<", "=">> -> CoreLess(v, c) \/ CoreEq(v, c)
          [] cmp.op = <<"~">>      -> v.major = c.major /\ v.minor = c.minor
                                      /\ v.patch >= c.patch
          [] cmp.op = <<"^">>      ->
                /\ v.major = c.major
                /\ IF c.major > 0
                   THEN ~CoreLess(v, c)
                   ELSE IF c.minor > 0
                        THEN v.minor = c.minor /\ v.patch >= c.patch
                        ELSE v.minor = c.minor /\ v.patch = c.patch

\* VersionReq::matches: every comparator matches; a pre-release version
\* needs a comparator that carries a pre-release of the same core, and the
\* modelled comparators carry none.
matches(req, v) ==
    /\ \A i \in 1..Len(req) : ComparatorMatches(req[i], v)
    /\ v.pre = <<>>

\* The scan goes on past an entry that does not parse.
get_version_from_module_SkipMalformed(ffi_result, vs) ==
    IF ffi_result = None THEN Ok(None)
    ELSE LET req == VersionReq_parse(ffi_result[1])
             RECURSIVE loop(_)
             loop(k) ==
                 IF k > Len(vs) THEN Ok(None)
                 ELSE LET v == Version_from_str(vs[k])
                      IN  IF v.tag = "Err" THEN loop(k + 1)
                          ELSE IF matches(req.val, v.val) THEN Ok(Some(vs[k]))
                          ELSE loop(k + 1)
         IN  IF req.tag = "Err" THEN Err("semver") ELSE loop(1)

\* fn get_version_from_module(versions) -> Result<Option<String>, _>, with the
\* value of ffi::get_version_from_module() as the first argument.
get_version_from_module(ffi_result, vs) ==
    IF ffi_result = None THEN Ok(None)
    ELSE LET req == VersionReq_parse(ffi_result[1])
             RECURSIVE loop(_)
             loop(k) ==
                 IF k > Len(vs) THEN Ok(None)
                 ELSE LET v == Version_from_str(vs[k])
                      IN  IF v.tag = "Err" THEN Err("semver")
                          ELSE IF matches(req.val, v.val) THEN Ok(Some(vs[k]))
                          ELSE loop(k + 1)
         IN  IF req.tag = "Err" THEN Err("semver") ELSE loop(1)

\* tests::test_capture_terraform_versions, expected_versions
expected_versions ==
    << <<"1", ".", "3", ".", "0">>,
       <<"1", ".", "2", ".", "0">>,
       <<"1", ".", "1", ".", "0">>,
       <<"1", ".", "0", ".", "0">>,
       <<"0", ".", "1", "5", ".", "0">> >>

\* tests::test_capture_terraform_versions_list_all, expected_versions
expected_versions_list_all ==
    << <<"1", ".", "3", ".", "0">>,
       <<"1", ".", "3", ".", "0", "-", "r", "c", "1">>,
       <<"1", ".", "3", ".", "0", "-", "b", "e", "t", "a", "1">>,
       <<"1", ".", "3", ".", "0", "-", "a", "l", "p", "h", "a", "2", "0", "2", "2", "0", "6", "0", "8">>,
       <<"1", ".", "2", ".", "0">>,
       <<"1", ".", "2", ".", "0", "-", "r", "c", "1">>,
       <<"1", ".", "2", ".", "0", "-", "b", "e", "t", "a", "1">>,
       <<"1", ".", "2", ".", "0", "-", "a", "l", "p", "h", "a", "2", "0", "2", "2", "0", "4", "1", "3">>,
       <<"1", ".", "2", ".", "0", "-", "a", "l", "p", "h", "a", "-", "2", "0", "2", "2", "0", "3", "2", "8">>,
       <<"1", ".", "1", ".", "0">>,
       <<"1", ".", "1", ".", "0", "-", "r", "c", "1">>,
       <<"1", ".", "1", ".", "0", "-", "b", "e", "t", "a", "1">>,
       <<"1", ".", "1", ".", "0", "-", "a", "l", "p", "h", "a", "2", "0", "2", "1", "1", "0", "2", "9">>,
       <<"1", ".", "0", ".", "0">>,
       <<"0", ".", "1", "5", ".", "0">>,
       <<"0", ".", "1", "5", ".", "0", "-", "r", "c", "1">>,
       <<"0", ".", "1", "5", ".", "0", "-", "b", "e", "t", "a", "1">>,
       <<"0", ".", "1", "5", ".", "0", "-", "a", "l", "p", "h", "a", "2", "0", "2", "1", "0", "1", "0", "7">> >>

(***************************************************************************)
(* Constants of the program and of the build                               *)
(***************************************************************************)
\* const DEFAULT_LOCATION
DEFAULT_LOCATION == <<".local/bin">>

\* const PROGRAM_NAME
PROGRAM_NAME == <<"t", "e", "r", "r", "a", "f", "o", "r", "m">>

\* std::env::consts::OS and ARCH of the build
consts_OS == "linux"

consts_ARCH == "x86_64"

\* perms.set_mode(0o755)
Mode0755 == 493

\* install_version: the architecture name of the release archives
arch_name(arch) ==
    CASE arch = "x86" -> "386"
      [] arch = "x86_64" -> "amd64"
      [] OTHER -> arch

\* format!("terraform_{version}_{os}_{arch}.zip")
zip_name(v, os, arch) == PROGRAM_NAME \o <<"_">> \o v \o <<"_", os, "_", arch, ".zip">>

(***************************************************************************)
(* The environment of a run: inputs, files, responses                      *)
(***************************************************************************)
V100 == <<"1", ".", "0", ".", "0">>

V120 == <<"1", ".", "2", ".", "0">>

V200rc1 == <<"2", ".", "0", ".", "0", "-", "r", "c", "1">>

\* a leading zero: matched by \d+ but not a semantic version
V0100 == <<"0", "1", ".", "0", ".", "0">>

Latest == <<"l", "a", "t", "e", "s", "t">>

\* values of -i/--install or TF_VERSION
ExplicitVersions == {V100, Latest}

\* entries a version list is drawn from
VersionPool == {V100, V120, V200rc1, V0100}

ReqCaret100 == V100

ReqRange == <<">", "=", "1", ".", "1", ".", "0", ",", " ", "<", "2", ".", "0", ".", "0">>

ReqNoMatch == <<">", "=", "3", ".", "0", ".", "0">>

\* Terraform's pessimistic operator, which VersionReq::parse rejects
ReqPessimistic == <<"~", ">", " ", "1", ".", "0">>

\* what ffi::get_version_from_module() can return: the required_version of
\* the module in the working directory, or nothing
ConstraintPool == {None} \cup {Some(r) : r \in {ReqCaret100, ReqRange, ReqNoMatch, ReqPessimistic}}

\* lines of a release index
LinePool ==
    { <<>>,
      <<"\"", "/", "1", ".", "0", ".", "0", "/", "\"">>,
      <<"\"", "/", "1", ".", "0", ".", "0", "-", "r", "c", "1", "/", "\"">>,
      <<"/", "2", ".", "0", ".", "0", "\"">>,
      <<"/", "1", ".", "0", "/", "\"">>,
      <<"/", "1", ".", "0", ".", "0", "-", "r", "c", "1", "/", "\"", " ",
        "/", "1", ".", "0", ".", "0", "/", "\"">>,
      <<"/", "2", ".", "0", ".", "0", "/", "\"", " ",
        "/", "2", ".", "0", ".", "0", "-", "a", "\"">>,
      <<"/", "3", ".", "0", ".", "0", "-", "/", "\"">> }

MaxLines == 2

MaxVersions == 3

\* lines joined by '\n'
RECURSIVE JoinLines(_)
JoinLines(ls) ==
    IF Len(ls) = 0 THEN <<>>
    ELSE IF Len(ls) = 1 THEN ls[1]
    ELSE ls[1] \o NL \o JoinLines(Tail(ls))

Documents == {JoinLines(ls) : ls \in UNION {[1..n -> LinePool] : n \in 1..MaxLines}}

\* bodies the release index answers with in a run
IndexA ==
    JoinLines(<< <<"\"", "/", "1", ".", "2", ".", "0", "/", "\"">>,
                 <<"\"", "/", "1", ".", "2", ".", "0", "-", "r", "c", "1", "/", "\"">>,
                 <<"\"", "/", "1", ".", "0", ".", "0", "/", "\"">> >>)

IndexB ==
    JoinLines(<< <<"\"", "/", "0", "1", ".", "0", ".", "0", "/", "\"">>,
                 <<"\"", "/", "1", ".", "0", ".", "0", "/", "\"">> >>)

IndexC == <<"<", "h", "t", "m", "l", ">">>

IndexDocs == {IndexA, IndexB, IndexC}

\* File and response bodies.  zip: ZipArchive::new accepts the bytes;
\* entries: the archive's entries in index order.
BlobRelease ==
    [id |-> "release", zip |-> TRUE,
     entries |-> << [name |-> "terraform", data |-> <<"r1", "r2">>] >>]

BlobStale ==
    [id |-> "stale", zip |-> TRUE,
     entries |-> << [name |-> "terraform", data |-> <<"s1">>] >>]

BlobGarbage == [id |-> "garbage", zip |-> FALSE, entries |-> <<>>]

BlobEmpty == [id |-> "empty", zip |-> TRUE, entries |-> <<>>]

\* a cache file cut short by a failed write
BlobPartial == [id |-> "partial", zip |-> FALSE, entries |-> <<>>]

ServerBlobs == {BlobRelease, BlobGarbage, BlobEmpty}

CacheBlobs == {BlobStale, BlobGarbage}

CachedVersions == {V100, V120}

OldBinary == <<"old">>

\* the install target before the run: absent, or a file with some mode
\* (0o644 = 420, 0o755 = 493, 0o4711 = 2505)
TargetPool ==
    {None, Some([mode |-> 420, bytes |-> OldBinary]),
           Some([mode |-> Mode0755, bytes |-> OldBinary]),
           Some([mode |-> 2505, bytes |-> OldBinary])}

\* mode of a file File::create makes: 0o666 & !umask, for umask 0o022, 0o077
NewFileModes == {420, 384}

VARIABLES
    pc,            \* where the run is
    failed_at,     \* the operation whose error ended the run
    args,          \* Args { list_all, version }
    path_lookup,   \* find_program_path(PROGRAM_NAME)
    home_dir,      \* home::home_dir()
    program_path,  \* main's program_path
    contents,      \* the release index text
    versions,      \* the captured version list
    constraint,    \* what ffi::get_version_from_module() returned
    module,        \* the result of get_version_from_module
    prompt,        \* the selector's call: its items and the choice made
    version,       \* the version to install
    cache,         \* files of the cache directory: <<zip name, body>>
    target,        \* the file at program_path
    target0,       \* the file at program_path when the run began
    zip_call,      \* the cache file found when get_terraform_version_zip began
    buffer,        \* the archive bytes in memory
    archive,       \* the decoded archive
    log            \* operations attempted, in order

vars == <<pc, failed_at, args, path_lookup, home_dir, program_path, contents,
          versions, constraint, module, prompt, version, cache, target, target0,
          zip_call, buffer, archive, log>>

envVars == <<args, path_lookup, home_dir, target0>>

resolveVars == <<contents, versions, constraint, module, prompt, version>>

fetchVars == <<cache, zip_call, buffer, archive>>

Idle ==
    /\ failed_at = ""
    /\ path_lookup = None /\ home_dir = None /\ program_path = None
    /\ prompt = None /\ version = None
    /\ cache = {} /\ target = None /\ target0 = None
    /\ zip_call = None /\ buffer = None /\ archive = None
    /\ log = <<>>

idleVars == <<failed_at, path_lookup, home_dir, program_path, prompt, version,
              cache, target, target0, zip_call, buffer, archive, log>>

(***************************************************************************)
(* capture_terraform_versions applied to bounded documents                 *)
(***************************************************************************)
InitCapture ==
    /\ pc = "capture"
    /\ args \in [list_all : BOOLEAN, version : {None}]
    /\ contents \in Documents \cup {LINES}
    /\ versions = <<>>
    /\ constraint = None /\ module = Ok(None)
    /\ Idle

CallCapture ==
    /\ pc = "capture"
    /\ versions' = capture_terraform_versions(args, contents)
    /\ pc' = "captured"
    /\ UNCHANGED <<args, contents, constraint, module, idleVars>>

NextCapture == CallCapture

SpecCapture == InitCapture /\ [][NextCapture]_vars

(***************************************************************************)
(* get_version_from_module applied to bounded lists and constraints        *)
(***************************************************************************)
InitModule ==
    /\ pc = "module_call"
    /\ args = [list_all |-> FALSE, version |-> None]
    /\ contents = <<>>
    /\ versions \in UNION {[1..n -> VersionPool] : n \in 0..MaxVersions}
    /\ constraint \in ConstraintPool
    /\ module = Ok(None)
    /\ Idle

CallModule ==
    /\ pc = "module_call"
    /\ module' = get_version_from_module(constraint, versions)
    /\ pc' = "module_done"
    /\ UNCHANGED <<args, contents, versions, constraint, idleVars>>

NextModule == CallModule

SpecModule == InitModule /\ [][NextModule]_vars

(***************************************************************************)
(* One run of the program                                                  *)
(***************************************************************************)
Init ==
    /\ pc = "main"
    /\ failed_at = ""
    /\ args \in [list_all : BOOLEAN, version : {None} \cup {Some(v) : v \in ExplicitVersions}]
    /\ path_lookup \in {None, Some(<<"/usr/local/bin/">> \o PROGRAM_NAME)}
    /\ home_dir \in {None, Some(<<"/home/user">>)}
    /\ program_path = None
    /\ contents = <<>> /\ versions = <<>>
    /\ constraint = None /\ module = Ok(None)
    /\ prompt = None /\ version = None
    /\ cache \in IF home_dir = None THEN {{}}
                 ELSE {{}} \cup {{<<zip_name(v, consts_OS, arch_name(consts_ARCH)), b>>} :
                                    v \in CachedVersions, b \in CacheBlobs}
    \* a path found by find_program_path exists; without any path there is no file
    /\ target \in IF path_lookup # None THEN TargetPool \ {None}
                  ELSE IF home_dir # None THEN TargetPool
                  ELSE {None}
    /\ target0 = target
    /\ zip_call = None /\ buffer = None /\ archive = None
    /\ log = <<>>

\* The file of the cache directory named name, as an Option.
cache_file(files, name) ==
    IF \E f \in files : f[1] = name
    THEN Some((CHOOSE f \in files : f[1] = name)[2])
    ELSE None

\* fs::write(path, body): the file is created or replaced.
fs_write(files, name, body) ==
    {f \in files : f[1] # name} \cup {<<name, body>>}

\* main, lines 59-61, with find_terraform_program_path: the PATH hit, else
\* the default location under the home directory, else a panic.
FindTerraformProgramPath ==
    /\ pc = "main"
    /\ program_path' =
          IF path_lookup # None THEN path_lookup
          ELSE IF home_dir # None
               THEN Some(home_dir[1] \o <<"/">> \o DEFAULT_LOCATION \o <<"/">> \o PROGRAM_NAME)
               ELSE None
    /\ IF program_path' = None
       THEN pc' = "panicked" /\ failed_at' = "find_path"
       ELSE pc' = "resolve" /\ UNCHANGED failed_at
    /\ UNCHANGED <<envVars, resolveVars, fetchVars, target, log>>

\* get_version_to_install, lines 86-88
ReturnExplicit ==
    /\ pc = "resolve"
    /\ args.version # None
    /\ version' = args.version
    /\ pc' = "install"
    /\ UNCHANGED <<failed_at, envVars, program_path, contents, versions, constraint,
                   module, prompt, fetchVars, target, log>>

\* The index is fetched whether or not a version was given.
GetTerraformVersions_IgnoreExplicit ==
    /\ pc = "resolve"
    /\ log' = Append(log, "index_get")
    /\ \/ /\ pc' = "failed" /\ failed_at' = "index_get"
          /\ UNCHANGED <<contents, versions>>
       \/ \E body \in IndexDocs :
             /\ contents' = body
             /\ versions' = capture_terraform_versions(args, body)
             /\ pc' = "module" /\ UNCHANGED failed_at
    /\ UNCHANGED <<envVars, program_path, constraint, module, prompt, version,
                   fetchVars, target>>

\* get_version_to_install line 90 with get_terraform_versions: one GET of
\* ARCHIVE_URL; a transport error, a non-2xx status or an unreadable body ends
\* the run, any body is captured.
GetTerraformVersions ==
    /\ pc = "resolve"
    /\ args.version = None
    /\ log' = Append(log, "index_get")
    /\ \/ /\ pc' = "failed" /\ failed_at' = "index_get"
          /\ UNCHANGED <<contents, versions>>
       \/ \E body \in IndexDocs :
             /\ contents' = body
             /\ versions' = capture_terraform_versions(args, body)
             /\ pc' = "module" /\ UNCHANGED failed_at
    /\ UNCHANGED <<envVars, program_path, constraint, module, prompt, version,
                   fetchVars, target>>

\* The prompt is shown even when the constraint matched.
GetVersionFromModule_AlwaysPrompt ==
    /\ pc = "module"
    /\ \E c \in ConstraintPool :
          /\ constraint' = c
          /\ module' = get_version_from_module(c, versions)
    /\ log' = Append(log, "manifest")
    /\ IF module'.tag = "Err"
       THEN pc' = "failed" /\ failed_at' = "manifest" /\ UNCHANGED version
       ELSE pc' = "prompt" /\ UNCHANGED <<failed_at, version>>
    /\ UNCHANGED <<envVars, program_path, contents, versions, prompt, fetchVars, target>>

\* get_version_to_install lines 92-94
GetVersionFromModule ==
    /\ pc = "module"
    /\ \E c \in ConstraintPool :
          /\ constraint' = c
          /\ module' = get_version_from_module(c, versions)
    /\ log' = Append(log, "manifest")
    /\ IF module'.tag = "Err"
       THEN pc' = "failed" /\ failed_at' = "manifest" /\ UNCHANGED version
       ELSE IF module'.val # None
            THEN pc' = "install" /\ version' = module'.val /\ UNCHANGED failed_at
            ELSE pc' = "prompt" /\ UNCHANGED <<failed_at, version>>
    /\ UNCHANGED <<envVars, program_path, contents, versions, prompt, fetchVars, target>>

\* get_version_to_install line 96 with get_version_from_user_prompt and
\* prompt_version_to_user: Select over the versions; interact() fails without
\* a terminal, when aborted, and on an empty list.
PromptVersionToUser ==
    /\ pc = "prompt"
    /\ log' = Append(log, "prompt")
    /\ \/ /\ prompt' = Some([items |-> versions, choice |-> None])
          /\ pc' = "failed" /\ failed_at' = "prompt"
          /\ UNCHANGED version
       \/ \E selection \in 1..Len(versions) :
             /\ prompt' = Some([items |-> versions, choice |-> Some(selection)])
             /\ version' = Some(versions[selection])
             /\ pc' = "install" /\ UNCHANGED failed_at
    /\ UNCHANGED <<envVars, program_path, contents, versions, constraint, module,
                   fetchVars, target>>

\* The name install_version asks get_terraform_version_zip for.
wanted_zip == zip_name(version[1], consts_OS, arch_name(consts_ARCH))

\* The existence test is lost: every call downloads.
cached_archive_NeverFound(home, files, name) == None

\* get_terraform_version_zip lines 186-189: the file at the cache path, when
\* there is a home directory and path.exists().
cached_archive(home, files, name) ==
    IF home # None THEN cache_file(files, name) ELSE None

\* The file at the cache path when get_terraform_version_zip is called.
cache_path_file == IF home_dir # None THEN cache_file(cache, wanted_zip) ELSE None

\* install_version with get_terraform_version_zip lines 189-195: the cache
\* file is read; a read error ends the run.
ReadCachedArchive ==
    /\ pc = "install"
    /\ cached_archive(home_dir, cache, wanted_zip) # None
    /\ zip_call' = Some(cache_path_file)
    /\ log' = Append(log, "cache_read")
    /\ \/ /\ buffer' = cached_archive(home_dir, cache, wanted_zip)
          /\ pc' = "decode" /\ UNCHANGED failed_at
       \/ /\ pc' = "failed" /\ failed_at' = "cache_read"
          /\ UNCHANGED buffer
    /\ UNCHANGED <<envVars, program_path, resolveVars, cache, archive, target>>

\* A failed download is tried again.
DownloadArchive_Retry ==
    /\ pc = "install"
    /\ cached_archive(home_dir, cache, wanted_zip) = None
    /\ Len(log) < 12
    /\ zip_call' = Some(cache_path_file)
    /\ log' = Append(log, "archive_get")
    /\ \/ \E body \in ServerBlobs :
             /\ buffer' = Some(body)
             /\ pc' = "save" /\ UNCHANGED failed_at
       \/ /\ pc' = "install"
          /\ UNCHANGED <<buffer, failed_at>>
    /\ UNCHANGED <<envVars, program_path, resolveVars, cache, archive, target>>

\* get_terraform_version_zip line 198 with
\* download_and_save_terraform_version_zip lines 205-209: one GET of the
\* archive URL; a transport error, a non-2xx status or an unreadable body ends
\* the run.
DownloadArchive ==
    /\ pc = "install"
    /\ cached_archive(home_dir, cache, wanted_zip) = None
    /\ zip_call' = Some(cache_path_file)
    /\ log' = Append(log, "archive_get")
    /\ \/ \E body \in ServerBlobs :
             /\ buffer' = Some(body)
             /\ pc' = "save" /\ UNCHANGED failed_at
       \/ /\ pc' = "failed" /\ failed_at' = "archive_get"
          /\ UNCHANGED buffer
    /\ UNCHANGED <<envVars, program_path, resolveVars, cache, archive, target>>

\* download_and_save_terraform_version_zip lines 211-217: with a home
\* directory the body is written to the cache path and a write error is
\* returned with `?`; without one a message is printed.
SaveArchive ==
    /\ pc = "save"
    /\ IF home_dir = None
       THEN /\ pc' = "decode"
            /\ UNCHANGED <<cache, failed_at, log>>
       ELSE /\ log' = Append(log, "cache_write")
            /\ \/ /\ cache' = fs_write(cache, wanted_zip, buffer[1])
                  /\ pc' = "decode" /\ UNCHANGED failed_at
               \/ /\ cache' \in {cache, fs_write(cache, wanted_zip, BlobPartial)}
                  /\ pc' = "failed" /\ failed_at' = "cache_write"
    /\ UNCHANGED <<envVars, program_path, resolveVars, zip_call, buffer, archive, target>>

\* ZipArchive::new(cursor), line 193 or 220
DecodeArchive ==
    /\ pc = "decode"
    /\ log' = Append(log, "decode")
    /\ IF buffer[1].zip
       THEN archive' = buffer /\ pc' = "extract" /\ UNCHANGED failed_at
       ELSE pc' = "failed" /\ failed_at' = "decode" /\ UNCHANGED archive
    /\ UNCHANGED <<envVars, program_path, resolveVars, cache, zip_call, buffer, target>>

\* The target is created before the entry is opened.
OpenEntry_CreatesFirst ==
    /\ pc = "extract"
    /\ log' = Append(log, "by_index")
    /\ IF Len(archive[1].entries) >= 1
       THEN pc' = "create" /\ UNCHANGED <<failed_at, target>>
       ELSE /\ pc' = "failed" /\ failed_at' = "by_index"
            /\ \E m \in NewFileModes :
                  target' = Some([mode |-> IF target # None THEN target[1].mode ELSE m,
                                  bytes |-> <<>>])
    /\ UNCHANGED <<envVars, program_path, resolveVars, fetchVars>>

\* extract_zip_archive line 227: archive.by_index(0)
OpenEntry ==
    /\ pc = "extract"
    /\ log' = Append(log, "by_index")
    /\ IF Len(archive[1].entries) >= 1
       THEN pc' = "create" /\ UNCHANGED failed_at
       ELSE pc' = "failed" /\ failed_at' = "by_index"
    /\ UNCHANGED <<envVars, program_path, resolveVars, fetchVars, target>>

\* extract_zip_archive line 232: File::create(program_path) truncates an
\* existing file, keeping its mode, or makes an empty one.
CreateTarget ==
    /\ pc = "create"
    /\ log' = Append(log, "create")
    /\ \/ /\ \E m \in NewFileModes :
                target' = Some([mode |-> IF target # None THEN target[1].mode ELSE m,
                                bytes |-> <<>>])
          /\ pc' = "chmod" /\ UNCHANGED failed_at
       \/ /\ pc' = "failed" /\ failed_at' = "create"
          /\ UNCHANGED target
    /\ UNCHANGED <<envVars, program_path, resolveVars, fetchVars>>

\* set_mode and set_permissions are left out.
SetPermissions_Omitted ==
    /\ pc = "chmod"
    /\ log' = Append(log, "chmod")
    /\ \/ pc' = "copy" /\ UNCHANGED failed_at
       \/ pc' = "failed" /\ failed_at' = "chmod"
    /\ UNCHANGED <<envVars, program_path, resolveVars, fetchVars, target>>

\* extract_zip_archive lines 233-235: metadata, set_mode(0o755),
\* set_permissions
SetPermissions ==
    /\ pc = "chmod"
    /\ log' = Append(log, "chmod")
    /\ \/ /\ target' = Some([target[1] EXCEPT !.mode = Mode0755])
          /\ pc' = "copy" /\ UNCHANGED failed_at
       \/ /\ pc' = "failed" /\ failed_at' = "chmod"
          /\ UNCHANGED target
    /\ UNCHANGED <<envVars, program_path, resolveVars, fetchVars>>

\* extract_zip_archive lines 238-241: io::copy streams entry 0 into the file;
\* an error of the decompressor or of a write leaves what was written.
CopyEntry ==
    /\ pc = "copy"
    /\ log' = Append(log, "copy")
    /\ LET data == archive[1].entries[1].data
       IN  \E n \in 0..Len(data) :
              /\ target' = Some([target[1] EXCEPT !.bytes = SubSeq(data, 1, n)])
              /\ \/ n = Len(data) /\ pc' = "done" /\ UNCHANGED failed_at
                 \/ pc' = "failed" /\ failed_at' = "copy"
    /\ UNCHANGED <<envVars, program_path, resolveVars, fetchVars>>

Next ==
    \/ FindTerraformProgramPath
    \/ ReturnExplicit
    \/ GetTerraformVersions
    \/ GetVersionFromModule
    \/ PromptVersionToUser
    \/ ReadCachedArchive
    \/ DownloadArchive
    \/ SaveArchive
    \/ DecodeArchive
    \/ OpenEntry
    \/ CreateTarget
    \/ SetPermissions
    \/ CopyEntry

Spec == Init /\ [][Next]_vars

(***************************************************************************)
(* Properties                                                              *)
(***************************************************************************)
Count(s, e) == Cardinality({i \in 1..Len(s) : s[i] = e})

Attempted(op) == \E i \in 1..Len(log) : log[i] = op

Ended == pc \in {"done", "failed", "panicked"}

\* Version resolution is over: get_version_to_install has returned.
Resolved == pc \in {"install", "save", "decode", "extract", "create", "chmod", "copy", "done"}
            \/ (pc = "failed" /\ failed_at \notin {"index_get", "manifest", "prompt"})

\* C1: with an explicit version (flag or TF_VERSION) get_version_to_install
\* returns that string verbatim, and the index fetch, the manifest lookup and
\* the selector are never invoked, whatever the network would answer.
C1_ExplicitPrecedence ==
    args.version # None =>
        /\ ~Attempted("index_get") /\ ~Attempted("manifest") /\ ~Attempted("prompt")
        /\ prompt = None /\ versions = <<>>
        /\ Resolved => version = args.version
        /\ pc = "done" => version = args.version

C1_Witness == args.version = Some(Latest) /\ pc = "done"

\* C2: when a file exists at the cache path as get_terraform_version_zip is
\* called, the call makes no HTTP request and the archive it returns is
\* decoded from exactly that file's bytes, stale or corrupted files included
\* (a file that does not decode ends the run, without a download).
C2_FetchIdempotence ==
    (zip_call # None /\ zip_call[1] # None) =>
        /\ ~Attempted("archive_get")
        /\ ~Attempted("cache_write")
        /\ buffer # None => buffer = zip_call[1]
        /\ archive # None => archive = zip_call[1]
        /\ (zip_call[1][1].zip /\ pc \notin {"decode", "install"} /\ failed_at # "cache_read")
              => archive = zip_call[1]
        /\ (~zip_call[1][1].zip /\ Ended) => (pc = "failed" /\ failed_at \in {"cache_read", "decode"})

C2_Witness ==
    /\ zip_call = Some(Some(BlobStale))
    /\ pc = "done"
    /\ target[1].bytes = BlobStale.entries[1].data

\* C3: after a successful (2xx) archive download a failure to write the body
\* to the cache path is not fatal: no run ends on the cache write.
C3_CacheWriteNotFatal == ~(pc = "failed" /\ failed_at = "cache_write")

\* The positions of a line where the inclusive pattern matches: its version
\* path segments.
Segments(text) == {i \in 1..Len(text) : InclusiveMatchAt(text, i) # 0}

OneSegmentPerLine(doc) ==
    LET lines == split(doc)
    IN  \A k \in 1..Len(lines) : Cardinality(Segments(lines[k])) <= 1

StrictListing(doc) == capture_terraform_versions([list_all |-> FALSE, version |-> None], doc)

\* C4 as stated: for every document, each version emitted in strict mode is
\* also emitted in inclusive mode, documents with several version path
\* segments on one line included.
C4_SupersetAllDocuments ==
    (pc = "captured" /\ args.list_all) => Range(StrictListing(contents)) \subseteq Range(versions)

\* C4 amended: for every document in which no line carries more than one
\* version path segment, each version emitted in strict mode is also emitted
\* in inclusive mode.
C4_SupersetOneSegmentPerLine ==
    (pc = "captured" /\ args.list_all /\ OneSegmentPerLine(contents))
        => Range(StrictListing(contents)) \subseteq Range(versions)

C4_Witness ==
    /\ pc = "captured" /\ args.list_all /\ OneSegmentPerLine(contents)
    /\ StrictListing(contents) # <<>>
    /\ Len(versions) > Len(StrictListing(contents))

\* The lines of a document, read off the newline positions.
LineCount(doc) == Count(doc, "\n") + 1

LineOf(doc, k) ==
    LET nl == {0, Len(doc) + 1} \cup {i \in 1..Len(doc) : doc[i] = "\n"}
        from == CHOOSE i \in nl : Cardinality({j \in nl : j < i}) = k - 1
        to == CHOOSE i \in nl : Cardinality({j \in nl : j < i}) = k
    IN  SubSeq(doc, from + 1, to - 1)

\* The leftmost match of the active pattern on a line, trimmed of / and ".
FirstVersion(list_all, text) ==
    LET i == Min({j \in 1..Len(text) : MatchAt(list_all, text, j) # 0})
        m == SubSeq(text, i, MatchAt(list_all, text, i) - 1)
        from == Min({j \in 1..Len(m) : m[j] \notin {"/", QUOTE}})
        to == Max({j \in 1..Len(m) : m[j] \notin {"/", QUOTE}})
    IN  SubSeq(m, from, to)

\* C5: the listing is the lines taken top to bottom, one version per matching
\* line (its first match of the active pattern), non-matching lines skipped,
\* duplicates kept; the sample index gives exactly the five releases in strict
\* mode and all 18 entries in inclusive mode.
C5_LineOrientedListing ==
    pc = "captured" =>
        LET hit == {k \in 1..LineCount(contents) :
                       \E j \in 1..Len(LineOf(contents, k)) :
                          MatchAt(args.list_all, LineOf(contents, k), j) # 0}
            nth(j) == CHOOSE k \in hit : Cardinality({h \in hit : h <= k}) = j
        IN  /\ Len(versions) = Cardinality(hit)
            /\ \A j \in 1..Len(versions) :
                  versions[j] = FirstVersion(args.list_all, LineOf(contents, nth(j)))
            /\ (contents = LINES /\ ~args.list_all) => versions = expected_versions
            /\ (contents = LINES /\ args.list_all) => versions = expected_versions_list_all

C5_Witness ==
    /\ pc = "captured" /\ contents = LINES /\ args.list_all
    /\ Len(versions) = 18

\* The constraint parses and entry k parses and satisfies it.
Satisfies(c, vs, k) ==
    /\ VersionReq_parse(c[1]).tag = "Ok"
    /\ Version_from_str(vs[k]).tag = "Ok"
    /\ matches(VersionReq_parse(c[1]).val, Version_from_str(vs[k]).val)

Malformed(vs, k) == Version_from_str(vs[k]).tag = "Err"

\* C6 as stated: None without a constraint; otherwise an error when the
\* constraint or any entry of the list is malformed, else Some(first entry
\* that satisfies the range), else None.
C6_ErrorOnAnyMalformedEntry ==
    pc = "module_done" =>
        IF constraint = None THEN module = Ok(None)
        ELSE IF VersionReq_parse(constraint[1]).tag = "Err"
                \/ \E k \in 1..Len(versions) : Malformed(versions, k)
             THEN module.tag = "Err"
             ELSE LET sat == {k \in 1..Len(versions) : Satisfies(constraint, versions, k)}
                  IN  IF sat = {} THEN module = Ok(None)
                      ELSE module = Ok(Some(versions[Min(sat)]))

\* C6 amended: None without a constraint; an error when the constraint is
\* malformed; otherwise the list is scanned in order up to the first entry
\* that is malformed or satisfies the range: an error if that entry is
\* malformed, Some(that entry) if it satisfies the range, None if there is no
\* such entry.  Entries after the first satisfying one are not parsed, so a
\* malformed entry there is no error; a malformed entry is never skipped to
\* reach a later one.
C6_ScanStopsAtFirstMalformedOrMatch ==
    pc = "module_done" =>
        IF constraint = None THEN module = Ok(None)
        ELSE IF VersionReq_parse(constraint[1]).tag = "Err" THEN module.tag = "Err"
        ELSE LET stop == {k \in 1..Len(versions) :
                             Malformed(versions, k) \/ Satisfies(constraint, versions, k)}
             IN  IF stop = {} THEN module = Ok(None)
                 ELSE IF Malformed(versions, Min(stop)) THEN module.tag = "Err"
                 ELSE module = Ok(Some(versions[Min(stop)]))

C6_Witness ==
    /\ pc = "module_done"
    /\ constraint = Some(ReqRange)
    /\ versions = <<V100, V120, V0100>>
    /\ module = Ok(Some(V120))

\* The manifest step is over and did not end the run in a prompt still to come.
PastSelector == Attempted("manifest") /\ pc \notin {"module", "prompt"}

SelectorOnceOnFullListing ==
    /\ Count(log, "prompt") = 1
    /\ prompt # None /\ prompt[1].items = versions
    /\ \/ prompt[1].choice = None /\ pc = "failed" /\ failed_at = "prompt" /\ version = None
       \/ /\ prompt[1].choice # None
          /\ version = Some(versions[prompt[1].choice[1]])

\* C7 as stated: with no explicit version and a fetched index, if the manifest
\* supplies no constraint or a (well-formed) constraint that no listed version
\* satisfies, the selector is invoked exactly once on the full listing and its
\* choice is the resolved version; if the constraint matches, the selector is
\* never invoked; the resolved version is a member of the listing.
C7_FallThroughWheneverNoMatch ==
    (args.version = None /\ PastSelector) =>
        /\ (constraint = None
            \/ (VersionReq_parse(constraint[1]).tag = "Ok"
                /\ \A k \in 1..Len(versions) : ~Satisfies(constraint, versions, k)))
              => SelectorOnceOnFullListing
        /\ (constraint # None /\ module.tag = "Ok" /\ module.val # None)
              => (~Attempted("prompt") /\ prompt = None)
        /\ version # None => version[1] \in Range(versions)

\* C7 amended: with no explicit version and a fetched index, if the manifest
\* supplies no constraint, or a constraint that parses while every listed
\* version parses and none satisfies it, the selector is invoked exactly once
\* on the full listing and its choice is the resolved version; if the scan
\* finds a satisfying entry, the selector is never invoked; a malformed
\* constraint or a malformed entry met by the scan ends the run before the
\* selector; the resolved version is a member of the listing.
C7_FallThroughWhenScanFindsNothing ==
    (args.version = None /\ PastSelector) =>
        /\ (constraint = None
            \/ (VersionReq_parse(constraint[1]).tag = "Ok"
                /\ \A k \in 1..Len(versions) :
                      ~Malformed(versions, k) /\ ~Satisfies(constraint, versions, k)))
              => SelectorOnceOnFullListing
        /\ (constraint # None /\ module.tag = "Ok" /\ module.val # None)
              => (~Attempted("prompt") /\ prompt = None /\ version = module.val)
        /\ module.tag = "Err"
              => (~Attempted("prompt") /\ pc = "failed" /\ failed_at = "manifest")
        /\ version # None => version[1] \in Range(versions)

C7_Witness ==
    /\ args.version = None /\ pc = "done"
    /\ constraint = Some(ReqNoMatch)
    /\ Len(versions) = 3
    /\ prompt # None /\ prompt[1].choice = Some(2)
    /\ version = Some(versions[2])

\* File::create(program_path) has succeeded in this run.
Created == Attempted("create") /\ failed_at # "create"

\* C8: after every successful extract_zip_archive the target's mode is 0755,
\* whether or not the file existed and whatever its mode was, and the mode is
\* set before any byte of entry 0 is streamed into the file.
C8_InstalledMode ==
    /\ pc = "done" => (target # None /\ target[1].mode = Mode0755)
    /\ (Created /\ target[1].bytes # <<>>) => target[1].mode = Mode0755
    /\ pc = "copy" => (target[1].mode = Mode0755 /\ target[1].bytes = <<>>)

C8_Witness ==
    /\ pc = "done"
    /\ target0 # None /\ target0[1].mode # Mode0755
    /\ target[1].bytes = BlobRelease.entries[1].data

\* The place of each operation in the pipeline.
Rank(op) ==
    CASE op = "index_get" -> 1
      [] op = "manifest" -> 2
      [] op = "prompt" -> 3
      [] op \in {"cache_read", "archive_get"} -> 4
      [] op = "cache_write" -> 5
      [] op = "decode" -> 6
      [] op = "by_index" -> 7
      [] op = "create" -> 8
      [] op = "chmod" -> 9
      [] op = "copy" -> 10

\* C9: the phases occur in the fixed order path determination, resolution
\* (index fetch, constraint match, selector), archive fetch, install; each
\* network request and each filesystem write is attempted at most once and
\* never retried; a fatal failure ends the run with no later operation
\* started; a run with no install path performs no request, prompt or write.
C9_SequentialAttemptOnce ==
    /\ \A i, j \in 1..Len(log) : i < j => Rank(log[i]) < Rank(log[j])
    /\ pc = "main" => log = <<>>
    /\ pc = "failed" => (log # <<>> /\ log[Len(log)] = failed_at)
    /\ Ended => ~ENABLED Next
    /\ pc = "panicked" =>
          (program_path = None /\ log = <<>> /\ target = target0 /\ prompt = None)
    /\ (program_path = None /\ pc # "main") => pc = "panicked"

C9_Witness ==
    /\ pc = "done"
    /\ log = <<"index_get", "manifest", "prompt", "archive_get", "cache_write",
               "decode", "by_index", "create", "chmod", "copy">>

\* C10: the install target is unchanged by every run that fails before entry
\* 0 has been opened (resolution, download, cache read, cache write, decode,
\* no entry 0); only a failure at or after the file's creation (chmod,
\* decompress, write) leaves a truncated or partial target.
C10_TargetUntouchedBeforeCreate ==
    /\ ~Attempted("create") => target = target0
    /\ (pc \in {"failed", "panicked"}
        /\ failed_at \in {"find_path", "index_get", "manifest", "prompt", "cache_read",
                          "archive_get", "cache_write", "decode", "by_index"})
          => target = target0
    /\ (pc = "failed" /\ target # target0) => failed_at \in {"chmod", "copy"}

C10_Witness ==
    /\ pc = "failed" /\ failed_at = "by_index"
    /\ target0 # None /\ target = target0
====
